---- MODULE Spec2Model ----
(***************************************************************************)
(* InkSpire quote widget: getQuotes (acquisition), newQuote (selection),   *)
(* setQuote (rendering) and shareQuote, as written in the two copies of    *)
(* the script kept in the repository (src/script.js and                    *)
(* src/unnamed/part_001).  The variable build says which copy is loaded.   *)
(***************************************************************************)
EXTENDS Integers, Sequences, FiniteSets, TLC

VARIABLES
    build,          \* which copy of the script the page loads
    localQuotes,    \* the global localQuotes of quotes.js
    nativeShare,    \* truthiness of navigator.share
    pc,             \* position of the async function getQuotes
    body,           \* what fetch / response.json() produced
    data,           \* the global data (the QuoteSet)
    assigns,        \* number of assignments made to data
    quoteText,      \* elements.quote.textContent
    authorText,     \* elements.author.textContent
    longQuote,      \* "long-quote" in elements.quote.classList
    loaderHidden,   \* elements.loader.hidden
    mainHidden,     \* elements.mainContainer.hidden
    handler,        \* the handler that ran last
    threw,          \* the last handler ended with an uncaught exception
    console,        \* messages logged by the last handler
    selects,        \* the newQuote calls of the last handler
    shared          \* what the last shareQuote handed to the share surfaces

vars == <<build, localQuotes, nativeShare, pc, body, data, assigns, quoteText,
          authorText, longQuote, loaderHidden, mainHidden, handler, threw,
          console, selects, shared>>

-----------------------------------------------------------------------------
(* Bounds of the model *)

MaxLocal == 2
MaxRemote == 2
RandDen == 4

(* Program constant: the length above which a quote is styled as long *)
LongQuoteLen == 120

-----------------------------------------------------------------------------
(* Values *)

Str120 == "012345678901234567890123456789012345678901234567890123456789012345678901234567890123456789012345678901234567890123456789"
Str121 == Str120 \o "x"

Undefined == [undefined |-> TRUE]
JsNull == [null |-> TRUE]

QuoteA == [text |-> "A", author |-> "X"]
QuoteB == [text |-> "B"]
QuoteLong == [text |-> Str121, author |-> "Y"]
QuoteEdge == [text |-> Str120]
QuoteNoText == [author |-> "Z"]
CharC == [char |-> "c"]

Builds == {"script.js", "part_001"}

SeqsUpTo(S, n) == UNION {[1..k -> S] : k \in 0..n}

LocalRecords == {QuoteA, QuoteLong}
LocalLists == SeqsUpTo(LocalRecords, MaxLocal)

RemoteRecords == {QuoteB, QuoteEdge, QuoteNoText, JsNull}

Bodies ==
    {[kind |-> "array", items |-> r] : r \in SeqsUpTo(RemoteRecords, MaxRemote)}
        \cup {[kind |-> "string", items |-> <<CharC>>],
              [kind |-> "nonIterable", items |-> <<>>]}

NoBody == [kind |-> "none", items |-> <<>>]
NoShare == [ran |-> FALSE]

Randoms == 0..(RandDen - 1)

-----------------------------------------------------------------------------
(* The mutable state a handler works on, threaded through its statements *)

Machine ==
    [data |-> data, assigns |-> assigns, quote |-> quoteText,
     author |-> authorText, long |-> longQuote, loaderHidden |-> loaderHidden,
     mainHidden |-> mainHidden, threw |-> FALSE, console |-> <<>>,
     selects |-> <<>>]

Shown(m) == <<m.quote, m.author, m.long>>

logError(m, message) == [m EXCEPT !.console = Append(@, message)]

loading(m) == [m EXCEPT !.loaderHidden = FALSE, !.mainHidden = TRUE]

completeLoading(m) == [m EXCEPT !.mainHidden = FALSE, !.loaderHidden = TRUE]

(* The default of the destructured parameter: author absent => "Unknown" *)
AuthorOf(q) == IF "author" \in DOMAIN q THEN q.author ELSE "Unknown"

(* setQuote: destructuring undefined or null throws before any statement; *)
(* a record without text is written to the display as "" and then         *)
(* quoteText.length throws, before classList.toggle.                       *)
setQuote(m, q) ==
    IF q \in {Undefined, JsNull}
    THEN [m EXCEPT !.threw = TRUE]
    ELSE LET m1 == [m EXCEPT !.quote = IF "text" \in DOMAIN q THEN q.text ELSE "",
                             !.author = " - " \o AuthorOf(q)]
         IN  IF "text" \in DOMAIN q
             THEN [m1 EXCEPT !.long = Len(q.text) > LongQuoteLen]
             ELSE [m1 EXCEPT !.threw = TRUE]

(* Math.ceil in place of Math.floor *)
RandomIndexCeil(r, len) == (r * len + RandDen - 1) \div RandDen

(* Math.floor(Math.random() * data.length), Math.random() = r / RandDen *)
RandomIndex(r, len) == (r * len) \div RandDen

(* data[i]: undefined outside the array *)
Element(s, i) == IF (i + 1) \in DOMAIN s THEN s[i + 1] ELSE Undefined

(* newQuote; script.js has no early return on an empty data *)
newQuote(m, r) ==
    LET i == RandomIndex(r, Len(m.data))
        q == Element(m.data, i)
        empty == Len(m.data) = 0
        m1 == loading(m)
        m2 == IF empty THEN logError(m1, "No quotes to display") ELSE m1
        entry(called, after) ==
            [data |-> m.data, index |-> i,
             handed |-> IF called THEN <<q>> ELSE <<>>,
             logged |-> empty, before |-> Shown(m), after |-> Shown(after)]
    IN  IF empty /\ build = "part_001"
        THEN completeLoading([m2 EXCEPT !.selects = Append(@, entry(FALSE, m2))])
        ELSE LET m3 == setQuote(m2, q)
                 m4 == [m3 EXCEPT !.selects = Append(@, entry(TRUE, m3))]
             IN  IF m4.threw THEN m4 ELSE completeLoading(m4)

(* the catch block forgets the local list *)
fallbackDataEmpty(local) == <<>>

(* data = [...localQuotes] *)
fallbackData(local) == local

(* data = [...localQuotes, ...apiQuotes] *)
mergedData(local, items) == local \o items

(* catch (error) { logError(...); data = [...localQuotes]; newQuote(); } *)
catchBlock(m, r) ==
    LET m1 == logError([m EXCEPT !.threw = FALSE], "Error fetching quotes")
        m2 == [m1 EXCEPT !.data = fallbackData(localQuotes), !.assigns = @ + 1]
    IN  newQuote(m2, r)

(* The try block from the point response.json() has resolved with b:     *)
(* spreading a non-iterable throws before the assignment; an exception   *)
(* of newQuote() is thrown inside the try as well.                       *)
tryBlock(m, b, r1, r2) ==
    IF b.kind = "nonIterable"
    THEN catchBlock(m, r2)
    ELSE LET m1 == [m EXCEPT !.data = mergedData(localQuotes, b.items),
                             !.assigns = @ + 1]
             m2 == newQuote(m1, r1)
         IN  IF m2.threw THEN catchBlock(m2, r2) ELSE m2

(* getQuotes().catch(...): a rejection of getQuotes is logged *)
outerCatch(m) ==
    IF m.threw THEN logError(m, "Unhandled error in getQuotes") ELSE m

-----------------------------------------------------------------------------
(* shareQuote *)

TwitterIntent == "https://twitter.com/intent/tweet?text="

encodeURIComponent(text) == [encoded |-> text]

WindowOpen(text) ==
    [url |-> <<TwitterIntent, encodeURIComponent(text)>>, target |-> "_blank"]

shareQuote(quote, author, rejects) ==
    LET blank == quote = "" \/ author = ""
    IN  IF build = "part_001"
        THEN LET shareText == quote \o " " \o author
             IN  IF blank
                 THEN [log |-> <<"No quote or author to share">>,
                       native |-> <<>>, opened |-> <<>>]
                 ELSE IF nativeShare
                 THEN [log |-> IF rejects
                               THEN <<"Error sharing via Web Share API">>
                               ELSE <<>>,
                       native |-> <<[title |-> "InkSpire Quote", text |-> shareText]>>,
                       opened |-> <<>>]
                 ELSE [log |-> <<>>, native |-> <<>>,
                       opened |-> <<WindowOpen(shareText)>>]
        ELSE [log |-> IF blank THEN <<"No quote or author to share">> ELSE <<>>,
              native |-> <<>>,
              opened |-> <<WindowOpen("\"" \o quote \o "\" - " \o author)>>]

-----------------------------------------------------------------------------
(* Actions *)

(* The page before the script runs: data = [], nothing displayed; the   *)
(* hidden attributes of the loader and the main container are set by     *)
(* the page's markup, so either value is possible.                       *)
Init ==
    /\ build \in Builds
    /\ localQuotes \in LocalLists
    /\ nativeShare \in BOOLEAN
    /\ pc = "load"
    /\ body = NoBody
    /\ data = <<>>
    /\ assigns = 0
    /\ quoteText = ""
    /\ authorText = ""
    /\ longQuote = FALSE
    /\ loaderHidden \in BOOLEAN
    /\ mainHidden \in BOOLEAN
    /\ handler = "none"
    /\ threw = FALSE
    /\ console = <<>>
    /\ selects = <<>>
    /\ shared = NoShare

Commit(m, name) ==
    /\ data' = m.data
    /\ assigns' = m.assigns
    /\ quoteText' = m.quote
    /\ authorText' = m.author
    /\ longQuote' = m.long
    /\ loaderHidden' = m.loaderHidden
    /\ mainHidden' = m.mainHidden
    /\ threw' = m.threw
    /\ console' = m.console
    /\ selects' = m.selects
    /\ handler' = name
    /\ UNCHANGED <<build, localQuotes, nativeShare>>

(* The script runs: getQuotes() up to its first await *)
GetQuotesStart ==
    /\ pc = "load"
    /\ pc' = "fetch"
    /\ Commit(loading(Machine), "getQuotes")
    /\ UNCHANGED <<body, shared>>

(* fetch(apiURL) resolves with a response *)
FetchResolve ==
    /\ pc = "fetch"
    /\ pc' = "json"
    /\ UNCHANGED <<build, localQuotes, nativeShare, body, data, assigns,
                   quoteText, authorText, longQuote, loaderHidden, mainHidden,
                   handler, threw, console, selects, shared>>

(* fetch(apiURL) rejects *)
FetchReject ==
    /\ pc = "fetch"
    /\ \E r \in Randoms :
          LET m == outerCatch(catchBlock(Machine, r))
          IN  /\ pc' = IF m.threw THEN "rejected" ELSE "done"
              /\ Commit(m, "getQuotes")
    /\ body' = [kind |-> "fetchError", items |-> <<>>]
    /\ UNCHANGED shared

(* response.json() rejects: the body is not JSON *)
JsonReject ==
    /\ pc = "json"
    /\ \E r \in Randoms :
          LET m == outerCatch(catchBlock(Machine, r))
          IN  /\ pc' = IF m.threw THEN "rejected" ELSE "done"
              /\ Commit(m, "getQuotes")
    /\ body' = [kind |-> "parseError", items |-> <<>>]
    /\ UNCHANGED shared

(* response.json() resolves with the parsed body b *)
JsonResolve ==
    /\ pc = "json"
    /\ \E b \in Bodies, r1 \in Randoms, r2 \in Randoms :
          LET m == outerCatch(tryBlock(Machine, b, r1, r2))
          IN  /\ pc' = IF m.threw THEN "rejected" ELSE "done"
              /\ Commit(m, "getQuotes")
              /\ body' = b
    /\ UNCHANGED shared

(* click on #new-quote *)
NewQuoteClick ==
    /\ pc # "load"
    /\ \E r \in Randoms : Commit(newQuote(Machine, r), "newQuote")
    /\ UNCHANGED <<pc, body, shared>>

(* click on #twitter *)
ShareClick ==
    /\ pc # "load"
    /\ \E rejects \in BOOLEAN :
          LET s == shareQuote(quoteText, authorText, rejects)
          IN  /\ shared' = [ran |-> TRUE, quote |-> quoteText,
                            author |-> authorText, native |-> s.native,
                            opened |-> s.opened]
              /\ console' = s.log
    /\ handler' = "shareQuote"
    /\ threw' = FALSE
    /\ selects' = <<>>
    /\ UNCHANGED <<build, localQuotes, nativeShare, pc, body, data, assigns,
                   quoteText, authorText, longQuote, loaderHidden, mainHidden>>

Next ==
    \/ GetQuotesStart
    \/ FetchResolve
    \/ FetchReject
    \/ JsonReject
    \/ JsonResolve
    \/ NewQuoteClick
    \/ ShareClick

Spec == Init /\ [][Next]_vars

-----------------------------------------------------------------------------
(* Properties *)

Finished == pc \in {"done", "rejected"}

(* A record of the shape the data model asks for: an object with a text *)
WellFormed(q) == "text" \in DOMAIN q

(* The acquisition failed: network error, non-JSON body or malformed shape *)
AcquisitionFailed ==
    \/ body.kind \in {"fetchError", "parseError", "nonIterable", "string"}
    \/ /\ body.kind = "array"
       /\ \E i \in DOMAIN body.items : ~WellFormed(body.items[i])

(* C1: if the fetch and the parse succeed with the list R, then once      *)
(* getQuotes has finished data equals L followed by R and keeps that      *)
(* value, whatever R contains and whichever element the first select      *)
(* picks.                                                                 *)
C1_MergedAfterSuccess ==
    (Finished /\ body.kind = "array") => data = localQuotes \o body.items

(* C2: if the acquisition fails in any way (fetch rejects, body is not    *)
(* JSON, parsed body of a malformed shape), then once getQuotes has       *)
(* finished data equals L exactly.                                        *)
C2_LocalAfterFailure ==
    (Finished /\ AcquisitionFailed) => data = localQuotes

(* C3: in every state after the acquisition has completed, with a         *)
(* non-empty local list, data is non-empty and at least as long as the    *)
(* local list, also after later select and share requests.                *)
C3_LocalBaseline ==
    (Finished /\ localQuotes # <<>>) =>
        (data # <<>> /\ Len(data) >= Len(localQuotes))

C3_Witness ==
    /\ Finished
    /\ localQuotes # <<>>
    /\ body.kind \in {"fetchError", "parseError", "nonIterable"}
    /\ handler = "newQuote"
    /\ selects # <<>>

(* C4: newQuote on an empty data logs an error, makes no call to          *)
(* setQuote and leaves quote text, author text and long-quote flag as     *)
(* they were.                                                             *)
C4_EmptySelectNoRender ==
    \A k \in DOMAIN selects :
        selects[k].data = <<>> =>
            /\ selects[k].logged
            /\ selects[k].handed = <<>>
            /\ selects[k].after = selects[k].before

(* C5: newQuote on a non-empty data computes an index in                  *)
(* 0..length-1 and hands setQuote an element of data as it stands at      *)
(* that moment.                                                           *)
C5_SelectInRange ==
    \A k \in DOMAIN selects :
        LET e == selects[k]
        IN  e.data # <<>> =>
                /\ e.index \in 0..(Len(e.data) - 1)
                /\ Len(e.handed) = 1
                /\ \E j \in DOMAIN e.data : e.data[j] = e.handed[1]

C5_Witness ==
    \E k \in DOMAIN selects :
        /\ Len(selects[k].data) >= 3
        /\ selects[k].index = Len(selects[k].data) - 1
        /\ selects[k].handed = <<selects[k].data[Len(selects[k].data)]>>

(* C6: while the fetch is pending the UI is in the loading state (loader  *)
(* shown, main container hidden), also after a new-quote or share         *)
(* request handled meanwhile.                                             *)
C6_LoadingWhilePending ==
    pc = "fetch" => (~loaderHidden /\ mainHidden)

(* C7: data is always the empty list, L or L followed by R, and it is     *)
(* assigned by a single assignment made after the fetch has resolved or   *)
(* rejected, never a second time.                                         *)
C7_SingleAssignment ==
    /\ data \in {<<>>, localQuotes, localQuotes \o body.items}
    /\ assigns <= 1
    /\ (assigns >= 1 => Finished)

(* C8: after any sequence of renders the long-quote flag is set iff the   *)
(* displayed quote text is longer than 120 characters, and the author     *)
(* display is " - " followed by the author of the quote, or by "Unknown"  *)
(* when the author is absent.                                             *)
C8_LongFlagMatchesText ==
    authorText # "" =>
        /\ longQuote <=> (Len(quoteText) > LongQuoteLen)
        /\ \A k \in DOMAIN selects :
              (k = Len(selects) /\ selects[k].handed # <<>>
                 /\ selects[k].handed[1] \notin {Undefined, JsNull})
                 => authorText = " - " \o AuthorOf(selects[k].handed[1])

(* C9: a share request with a quote and an author displayed hands the     *)
(* share text to exactly one surface, the native one when it is           *)
(* available and the URL fallback otherwise; with the quote text or the   *)
(* author text empty it logs an error and hands nothing to either.        *)
C9_ShareOneSurface ==
    shared.ran =>
        IF shared.quote # "" /\ shared.author # ""
        THEN /\ nativeShare => (Len(shared.native) = 1 /\ shared.opened = <<>>)
             /\ ~nativeShare => (shared.native = <<>> /\ Len(shared.opened) = 1)
        ELSE /\ shared.native = <<>>
             /\ shared.opened = <<>>
             /\ handler = "shareQuote" =>
                    console = <<"No quote or author to share">>

(* C10: for every local list, the empty one included, and every remote    *)
(* outcome, getQuotes finishes without a propagated exception, with data  *)
(* assigned and the UI out of the loading state.                          *)
C10_FinishesIdle ==
    Finished =>
        /\ pc = "done"
        /\ assigns >= 1
        /\ handler = "getQuotes" => (loaderHidden /\ ~mainHidden)

====
